---------------------------- MODULE Spec2Model ----------------------------
(***************************************************************************)
(* rich-tables: the adaptive rendering engine (generic.py) and its helpers *)
(* (utils.py): type dispatch of flexitable, the counts table, the          *)
(* two-column layout, the seeded colour generator and the text diff.       *)
(*                                                                         *)
(* Python objects are modelled by value.  A mutable object the code        *)
(* changes in place (the input data, FIELDS_MAP, the module-level random   *)
(* generator) is a variable; a function that changes one returns the       *)
(* changed object next to its result.                                      *)
(***************************************************************************)
EXTENDS Integers, Sequences, FiniteSets, TLC

VARIABLES
    \* ---- flexitable / counts_table
    input,       \* the value object handed to flexitable (mutable)
    fields,      \* FIELDS_MAP: key -> formatter (a defaultdict)
    rng,         \* the module-level generator of `random`
    result,      \* what the last call returned, or the exception it raised
    prev,        \* history: input and fields as they were before the last call
    op,          \* history: the last call made and its argument
    console,     \* the console made at import: its width
    calls,       \* history: the calls made (on the generator, or of flexitable
                 \* within the last render) and what they were made on
    stack,       \* the calls of flexitable that have not returned, innermost last
    \* ---- make_bicolumn_layout
    rends,       \* the blocks handed to make_bicolumn_layout, or the blocks _dict
                 \* packs into lines
    pos,         \* index of the next block of the for loop (0-based)
    col_rows,    \* running totals of the two columns
    divided,     \* blocks assigned to each column
    standalone,  \* blocks without a row count
    lay,         \* the layout returned (pairs of blocks), or None while running
    \* ---- make_difftext
    before,      \* first argument of make_difftext
    after,       \* second argument of make_difftext
    diff         \* the fragments make_difftext has emitted, or None

renderVars == <<input, fields, rng, console, result, prev, op, calls, stack>>
layoutVars == <<rends, pos, col_rows, divided, standalone, lay>>
diffVars   == <<before, after, diff>>
vars       == <<input, fields, rng, console, result, prev, op, calls, stack,
                rends, pos, col_rows, divided, standalone, lay,
                before, after, diff>>

None == [t |-> "null"]

\* ------------------------------------------------------------------------
\* Generic helpers on sequences
\* ------------------------------------------------------------------------
Range(s) == {s[i] : i \in DOMAIN s}

SeqsUpTo(S, n) == UNION {[1..k -> S] : k \in 0..n}

RECURSIVE SumSeq(_)
SumSeq(s) == IF s = <<>> THEN 0 ELSE Head(s) + SumSeq(Tail(s))

Abs(x) == IF x < 0 THEN -x ELSE x

Max(S) == CHOOSE x \in S : \A y \in S : y <= x

\* ------------------------------------------------------------------------
\* Python values.  A value is a record tagged by its Python type:
\*   [t |-> "null"], [t |-> "bool", v |-> TRUE], [t |-> "int", v |-> 3],
\*   [t |-> "float", v |-> 25]  (a float is held in tenths: 25 is 2.5),
\*   [t |-> "str", v |-> "a"], [t |-> "list", v |-> <<...>>],
\*   [t |-> "dict", v |-> << <<key, value>>, ... >>]  (insertion order kept).
\* ------------------------------------------------------------------------
VInt(n)   == [t |-> "int", v |-> n]
VFloat(n) == [t |-> "float", v |-> n]
VStr(s)   == [t |-> "str", v |-> s]
VBool(b)  == [t |-> "bool", v |-> b]
VList(s)  == [t |-> "list", v |-> s]
VDict(s)  == [t |-> "dict", v |-> s]

DecChar == <<"0", "1", "2", "3", "4", "5", "6", "7", "8", "9">>
HexChar == <<"0", "1", "2", "3", "4", "5", "6", "7", "8", "9",
             "A", "B", "C", "D", "E", "F">>

RECURSIVE NatStr(_)
NatStr(n) == IF n < 10 THEN DecChar[n + 1]
             ELSE NatStr(n \div 10) \o DecChar[(n % 10) + 1]

\* str(int)
IntStr(n) == IF n < 0 THEN "-" \o NatStr(-n) ELSE NatStr(n)

\* str(float) of a float held in tenths: 100 is "10.0", -25 is "-2.5"
FloatStr(x) ==
    (IF x < 0 THEN "-" ELSE "") \o NatStr(Abs(x) \div 10) \o "." \o NatStr(Abs(x) % 10)

\* str(value) of a scalar
PyStr(x) ==
    CASE x.t = "str"   -> x.v
      [] x.t = "int"   -> IntStr(x.v)
      [] x.t = "float" -> FloatStr(x.v)
      [] x.t = "bool"  -> (IF x.v THEN "True" ELSE "False")
      [] x.t = "null"  -> "None"

\* float(value) of a number, in tenths
PyFloat(x) == IF x.t = "float" THEN x.v ELSE 10 * x.v

\* int(float): truncation towards zero of a float held in tenths
PyInt(x) == IF x < 0 THEN -((-x) \div 10) ELSE x \div 10

RECURSIVE HexDigits(_)
HexDigits(n) == IF n < 16 THEN HexChar[n + 1]
                ELSE HexDigits(n \div 16) \o HexChar[(n % 16) + 1]

\* "{:02X}".format(n) and "{:0>2X}".format(n): the same text for every n
Hex2(n) ==
    LET s == (IF n < 0 THEN "-" ELSE "") \o HexDigits(Abs(n))
    IN IF Len(s) < 2 THEN "0" \o s ELSE s

\* utils.py 47-48
wrap(text, tag) == "[" \o tag \o "]" \o text \o "[/]"

\* ========================================================================
\* The module-level generator of `random` (utils.py 205-206, 301-302)
\*
\* random.seed(x) puts the generator in a state that depends on x alone, and
\* each randint advances it.  The generator is held as the value it was last
\* seeded with and the number of draws made since; the Mersenne Twister's
\* output is stood in for by a fixed arithmetic function of the two.
\* ========================================================================
KnownSeeds == <<"", "a", "b", "bpm", "file", "label", "count", "name",
                "0.0", "2.5", "5.0", "10.0", "os1", "os2">>

StrCode(s) ==
    IF \E i \in DOMAIN KnownSeeds : KnownSeeds[i] = s
    THEN CHOOSE i \in DOMAIN KnownSeeds : KnownSeeds[i] = s
    ELSE 100 + Len(s)

\* seeding with the int 1 and with the str "1" gives different states
SeedCode(x) ==
    CASE x.t = "str"  -> 2 * StrCode(x.v)
      [] x.t = "int"  -> 2 * Abs(x.v) + 1
      [] x.t = "bool" -> (IF x.v THEN 3 ELSE 1)
      [] OTHER        -> 0

\* random.seed(x)
seed(x) == [seed |-> x, n |-> 0]

\* a draw from 0..hi + lo, the lower bound not kept: the mutant of randint
randint_wide(g, lo, hi) ==
    lo + ((SeedCode(g.seed) * (59 + 13 * g.n) + 101 * (g.n + 1) * (g.n + 1)) % (hi + 1))

\* random.randint(lo, hi): the value drawn in generator state g
randint(g, lo, hi) ==
    lo + ((SeedCode(g.seed) * (59 + 13 * g.n) + 101 * (g.n + 1) * (g.n + 1)) % (hi - lo + 1))

\* the generator after one draw
drawn(g) == [g EXCEPT !.n = @ + 1]

\* The generator is seeded from the operating system when `random` is imported.
InitialRng == {seed(VStr("os1")), seed(VStr("os2"))}

\* utils.py 204-207 without line 205: the mutant of predictably_random_color
predictably_random_color_noseed(g, string) ==
    LET g0 == g
        g1 == drawn(g0)
        g2 == drawn(g1)
    IN [ret |-> "#" \o Hex2(randint(g0, 60, 200)) \o Hex2(randint(g1, 60, 200))
                    \o Hex2(randint(g2, 60, 200)),
        channels |-> <<randint(g0, 60, 200), randint(g1, 60, 200), randint(g2, 60, 200)>>,
        rng |-> drawn(g2)]

\* utils.py 204-207.  g is the generator before the call; the result holds
\* the colour returned and the generator after the call.
predictably_random_color(g, string) ==
    LET g0 == seed(string)
        g1 == drawn(g0)
        g2 == drawn(g1)
    IN [ret |-> "#" \o Hex2(randint(g0, 60, 200)) \o Hex2(randint(g1, 60, 200))
                    \o Hex2(randint(g2, 60, 200)),
        channels |-> <<randint(g0, 60, 200), randint(g1, 60, 200), randint(g2, 60, 200)>>,
        rng |-> drawn(g2)]

\* utils.py 210-211
format_with_color(g, name) ==
    LET c == predictably_random_color(g, name)
    IN [ret |-> wrap(PyStr(name), "b " \o c.ret), rng |-> c.rng]

\* A ratio of two floats, kept exact as <<numerator, denominator>> in lowest
\* terms with a positive denominator.
RECURSIVE Gcd(_, _)
Gcd(a, b) == IF b = 0 THEN a ELSE Gcd(b, a % b)

Ratio(a, b) ==
    LET g == Gcd(Abs(a), Abs(b))
        s == IF b < 0 THEN -1 ELSE 1
    IN <<(s * a) \div g, (s * b) \div g>>

\* round(x * r) for an int x and a ratio r: to the nearest int, ties to even
RoundTimes(x, r) ==
    LET p == x * r[1]
        q == r[2]
        fl == p \div q
        rem2 == 2 * (p - fl * q)
    IN IF rem2 < q THEN fl
       ELSE IF rem2 > q THEN fl + 1
       ELSE IF fl % 2 = 0 THEN fl ELSE fl + 1

\* utils.py 294-308.  count and total_max are floats (in tenths), item_max is
\* None or a float value.  The Bar returned keeps its size, begin and end; the
\* local `ratio` that scales the colour is kept beside them.
progress_bar(g, count, total_max, item_max) ==
    LET use_max == IF item_max # None THEN item_max.v ELSE total_max
        ratio == IF use_max # 0 THEN Ratio(count, use_max) ELSE <<0, 1>>
        g0 == seed(VStr(FloatStr(total_max)))
        g1 == drawn(g0)
        g2 == drawn(g1)
        draws == <<randint(g0, 50, 180), randint(g1, 50, 180), randint(g2, 50, 180)>>
        channels == [i \in 1..3 |-> RoundTimes(draws[i], ratio)]
        color == "#" \o Hex2(channels[1]) \o Hex2(channels[2]) \o Hex2(channels[3])
    IN [ret |-> [t |-> "Bar", size |-> use_max, begin |-> 0, end |-> count,
                 color |-> color, ratio |-> ratio, draws |-> draws,
                 channels |-> channels],
        rng |-> drawn(g2)]

\* ========================================================================
\* Results.  A call returns [ret, exc, w, data]: the value returned, the name
\* of the exception raised ("" when none; ret is then None), the world after
\* the call (w.fields is FIELDS_MAP, w.rng the generator, w.width the width
\* of the console) and the argument object as the call left it.
\* ========================================================================
Return(ret, w, d) == [ret |-> ret, exc |-> "", w |-> w, data |-> d]
Raise(exc, w, d)  == [ret |-> None, exc |-> exc, w |-> w, data |-> d]

\* Strings of the model that contain the given substring (`sub in key`)
KeysContaining(sub) ==
    CASE sub = "count_"   -> {"count_x", "x_count_y"}
      [] sub = "duration" -> {"duration", "total_duration", "avg_duration"}

\* The strings of the model that int() parses, and float() besides
IntLiterals == 0..20
FloatLiterals == 0..120

IsIntLiteral(s) == \E n \in IntLiterals : IntStr(n) = s
ParseInt(s) == CHOOSE n \in IntLiterals : IntStr(n) = s
IsFloatLiteral(s) == \E n \in FloatLiterals : FloatStr(n) = s
ParseFloat(s) == CHOOSE n \in FloatLiterals : FloatStr(n) = s

\* bool(x) of a scalar
Truthy(x) ==
    CASE x.t = "null"  -> FALSE
      [] x.t = "bool"  -> x.v
      [] x.t = "str"   -> x.v # ""
      [] x.t \in {"int", "float"} -> x.v # 0
      [] OTHER -> x.v # <<>>

\* int(x): [ret |-> the int, exc |-> "" or the exception]
int(x) ==
    CASE x.t = "int"   -> [ret |-> x.v, exc |-> ""]
      [] x.t = "bool"  -> [ret |-> IF x.v THEN 1 ELSE 0, exc |-> ""]
      [] x.t = "float" -> [ret |-> PyInt(x.v), exc |-> ""]
      [] x.t = "str"   -> IF IsIntLiteral(x.v) THEN [ret |-> ParseInt(x.v), exc |-> ""]
                          ELSE [ret |-> 0, exc |-> "ValueError"]
      [] OTHER         -> [ret |-> 0, exc |-> "TypeError"]

\* float(x), in tenths: [ret |-> the float, exc |-> "" or the exception]
float(x) ==
    CASE x.t = "int"   -> [ret |-> 10 * x.v, exc |-> ""]
      [] x.t = "bool"  -> [ret |-> IF x.v THEN 10 ELSE 0, exc |-> ""]
      [] x.t = "float" -> [ret |-> x.v, exc |-> ""]
      [] x.t = "str"   -> IF IsIntLiteral(x.v) THEN [ret |-> 10 * ParseInt(x.v), exc |-> ""]
                          ELSE IF IsFloatLiteral(x.v) THEN [ret |-> ParseFloat(x.v), exc |-> ""]
                          ELSE [ret |-> 0, exc |-> "ValueError"]
      [] OTHER         -> [ret |-> 0, exc |-> "TypeError"]

\* ------------------------------------------------------------------------
\* FIELDS_MAP (utils.py 379-545): a defaultdict whose factory gives `str`.
\* The model keeps four of its entries, named by what they are bound to.
\* ------------------------------------------------------------------------
RegisteredFields ==
    [k \in {"bpm", "file", "label", "duration"} |->
        CASE k = "bpm"      -> "bpm"
          [] k = "file"     -> "file"
          [] k = "label"    -> "format_with_color"
          [] k = "duration" -> "duration"]

\* FIELDS_MAP[key] (utils.py 379-380): a missing key is inserted, bound to
\* str, by defaultdict.__missing__
FieldsGet(fm, key) ==
    IF key \in DOMAIN fm
    THEN [fmt |-> fm[key], fields |-> fm]
    ELSE [fmt |-> "str",
          fields |-> [k \in DOMAIN fm \cup {key} |-> IF k = key THEN "str" ELSE fm[k]]]

\* utils.py 83-94: timedelta(seconds=float(duration)) as HH:MM:SS
zfill2(n) == IF 0 <= n /\ n < 10 THEN "0" \o IntStr(n) ELSE IntStr(n)

duration2human(duration) ==
    LET total == duration \div 10
        days == total \div 86400
        secs == total % 86400
    IN zfill2(days * 24 + secs \div 3600) \o ":" \o zfill2((secs % 3600) \div 60)
       \o ":" \o zfill2(secs % 60)

\* utils.py 424-433: the style bpm picks
BpmStyle(n) ==
    IF n < 135 THEN "green"
    ELSE IF n > 230 THEN "b blink red"
    ELSE IF n > 165 THEN "red"
    ELSE "yellow"

\* One formatter of FIELDS_MAP applied to x with the generator in state g:
\* [ret, exc, rng]
Formatted(ret, g) == [ret |-> ret, exc |-> "", rng |-> g]
FormatRaised(exc, g) == [ret |-> None, exc |-> exc, rng |-> g]

ApplyFormatter(fmt, x, g) ==
    CASE fmt = "str" ->                                   \* utils.py 380
            Formatted(VStr(PyStr(x)), g)
      [] fmt = "bpm" ->                                   \* utils.py 424-433
            LET n == int(IF Truthy(x) THEN x ELSE VInt(0))
            IN IF n.exc # "" THEN FormatRaised(n.exc, g)
               ELSE Formatted(VStr(wrap(PyStr(x), BpmStyle(n.ret))), g)
      [] fmt = "file" ->                                  \* utils.py 532
            IF x.t # "str" THEN FormatRaised("AttributeError", g)
            ELSE LET c == format_with_color(g, x)
                 IN Formatted(VStr(c.ret), c.rng)
      [] fmt = "format_with_color" ->                     \* utils.py 398
            LET c == format_with_color(g, x)
            IN Formatted(VStr(c.ret), c.rng)
      [] fmt = "duration" ->                              \* utils.py 468
            IF x.t \in {"int", "float", "bool"}
            THEN Formatted(VStr(duration2human(PyFloat(
                     IF x.t = "bool" THEN VInt(IF x.v THEN 1 ELSE 0) ELSE x))), g)
            ELSE Formatted(x, g)

\* The outcome a of a formatter as the outcome of the lookup and the call:
\* [ret, exc, w], w the world with the registry as the lookup left it
Applied(w, registry, a) ==
    [ret |-> a.ret, exc |-> a.exc, w |-> [w EXCEPT !.fields = registry, !.rng = a.rng]]

\* FIELDS_MAP[key](x) (generic.py 89, 91, 96; utils.py 313).  [ret, exc, w]
Format(w, key, x) ==
    LET got == FieldsGet(w.fields, key)
    IN Applied(w, got.fields, ApplyFormatter(got.fmt, x, w.rng))

\* ------------------------------------------------------------------------
\* rich objects
\* ------------------------------------------------------------------------
\* isinstance(x, ConsoleRenderable)
IsConsoleRenderable(x) == x.t \in {"Table", "Panel", "Tree", "Bar", "Align"}

\* rich.protocol.is_renderable(x)
IsRenderable(x) == x.t = "str" \/ IsConsoleRenderable(x)

\* utils.py 182-201: new_table(*headers) without rows.  The last three fields
\* are the locals of counts_table, kept on the table it returns.
new_table(headers) ==
    [t |-> "Table", columns |-> headers, rows |-> <<>>, caption |-> "",
     count_col_name |-> "", num_type |-> "", total_max |-> 0]

\* rich Table.add_row(*args): a cell that is None becomes "", one that is
\* not renderable raises NotRenderableError; short rows are padded and long
\* rows add unnamed columns.  [table, exc]
add_row(table, args) ==
    IF \E i \in DOMAIN args : args[i] # None /\ ~IsRenderable(args[i])
    THEN [table |-> table, exc |-> "NotRenderableError"]
    ELSE LET n == IF Len(args) > Len(table.columns) THEN Len(args) ELSE Len(table.columns)
             row == [i \in 1..n |->
                        IF i <= Len(args) /\ args[i] # None THEN args[i] ELSE VStr("")]
             cols == [i \in 1..n |-> IF i <= Len(table.columns) THEN table.columns[i] ELSE ""]
         IN [table |-> [table EXCEPT !.columns = cols, !.rows = Append(@, row)],
             exc |-> ""]

\* utils.py 214-228: simple_panel / border_panel around a table
Panel(content, title, style) ==
    [t |-> "Panel", content |-> content, title |-> title, border_style |-> style]

\* ------------------------------------------------------------------------
\* dict objects: a sequence of <<key, value>> pairs in insertion order
\* ------------------------------------------------------------------------
DictKeys(d) == [i \in DOMAIN d.v |-> d.v[i][1]]

DictHas(d, key) == \E i \in DOMAIN d.v : d.v[i][1] = key

\* d.get(key, default)
DictGet(d, key, default) ==
    IF DictHas(d, key) THEN d.v[CHOOSE i \in DOMAIN d.v : d.v[i][1] = key][2]
    ELSE default

\* the dict after d.pop(key, default)
RECURSIVE WithoutKey(_, _)
WithoutKey(pairs, key) ==
    IF pairs = <<>> THEN <<>>
    ELSE IF Head(pairs)[1] = key THEN Tail(pairs)
    ELSE <<Head(pairs)>> \o WithoutKey(Tail(pairs), key)

DictPop(d, key) == VDict(WithoutKey(d.v, key))

\* isinstance(x, (int, float)); bool is a subclass of int
IsNumber(x) == x.t \in {"int", "float", "bool"}

\* utils.py 311-316: get_val(obj, field).  [ret, exc, w]
get_val(w, obj, field) ==
    LET value == DictGet(obj, field, None)
    IN IF value = None THEN [ret |-> VStr(""), exc |-> "", w |-> w]
       ELSE Format(w, field, value)

RECURSIVE GetVals(_, _, _, _)

\* utils.py 348: the cell g of one header, then the headers after it
GetValsNext(item, headers, cells, g) ==
    IF g.exc # "" THEN [cells |-> cells, exc |-> g.exc, w |-> g.w]
    ELSE GetVals(g.w, item, Tail(headers), Append(cells, g.ret))

\* utils.py 348: map(lambda x: get_val(item, x), headers), left to right.
\* [cells, exc, w]
GetVals(w, item, headers, cells) ==
    IF headers = <<>> THEN [cells |-> cells, exc |-> "", w |-> w]
    ELSE GetValsNext(item, headers, cells, get_val(w, item, Head(headers)))

\* utils.py 324-326 with a break after the first numeric key: the mutant of
\* CountColLoop
RECURSIVE CountColFirst(_, _, _)
CountColFirst(keys, first, cur) ==
    IF keys = <<>> THEN cur
    ELSE IF Head(keys) # "total" /\ IsNumber(DictGet(first, Head(keys), None))
         THEN Head(keys)
         ELSE CountColFirst(Tail(keys), first, cur)

\* utils.py 324-326: the for loop over the keys of the first row; every
\* numeric key other than "total" overwrites count_col_name
RECURSIVE CountColLoop(_, _, _)
CountColLoop(keys, first, cur) ==
    IF keys = <<>> THEN cur
    ELSE CountColLoop(Tail(keys), first,
             IF Head(keys) # "total" /\ IsNumber(DictGet(first, Head(keys), None))
             THEN Head(keys) ELSE cur)

\* utils.py 320-326
CountColName(first) ==
    IF DictHas(first, "count") THEN "count"
    ELSE CountColLoop(DictKeys(first), first, "count")

\* utils.py 328: float(i.get(count_col_name, 0)) for i in data, in order.
\* [counts (a sequence, one per row), exc]
RECURSIVE RowCounts(_, _, _)
RowCounts(items, col, acc) ==
    IF items = <<>> THEN [counts |-> acc, exc |-> ""]
    ELSE LET f == float(DictGet(Head(items), col, VInt(0)))
         IN IF f.exc # "" THEN [counts |-> acc, exc |-> f.exc]
            ELSE RowCounts(Tail(items), col, Append(acc, f.ret))

\* sum(S) of a set of floats
RECURSIVE SumSet(_)
SumSet(S) == IF S = {} THEN 0
             ELSE LET x == CHOOSE x \in S : TRUE IN x + SumSet(S \ {x})

\* num_type(x) as text: str(int(x)) or str(float(x))
NumStr(num_type, x) == IF num_type = "int" THEN IntStr(PyInt(x)) ELSE FloatStr(x)

\* utils.py 346-351: table.add_row(*cells, item_table_val, bar) of one row.
\* st holds the world, the rows (changed in place by pop), the table and the
\* exception.
CountsRowAdd(st, items, vals, item_table_val, bar) ==
    LET added == add_row(st.table, vals.cells \o <<VStr(item_table_val), bar.ret>>)
    IN [w |-> [vals.w EXCEPT !.rng = bar.rng], items |-> items,
        table |-> IF added.exc # "" THEN st.table ELSE added.table, exc |-> added.exc]

\* utils.py 348-350: the cells of the headers, then the bar
CountsRowBar(st, items, vals, item_table_val, item_count, total_max, item_max) ==
    IF vals.exc # ""
    THEN [st EXCEPT !.items = items, !.w = vals.w, !.exc = vals.exc]
    ELSE CountsRowAdd(st, items, vals, item_table_val,
                      progress_bar(vals.w.rng, item_count, total_max, item_max))

\* utils.py 338-351: the body of the for loop, for row i
CountsRow(st, i, col, headers, num_type, total_max) ==
    LET item0 == st.items[i]
        item_count == float(DictGet(item0, col, VInt(0)))
        item1 == DictPop(item0, col)
        raw_max == DictGet(item1, "total", None)
        item == DictPop(item1, "total")
        items == [st.items EXCEPT ![i] = item]
        fmax == IF raw_max # None THEN float(raw_max) ELSE [ret |-> 0, exc |-> ""]
        item_max == IF raw_max # None THEN VFloat(fmax.ret) ELSE None
        item_table_val ==
            IF raw_max # None
            THEN NumStr(num_type, item_count.ret) \o "/" \o NumStr(num_type, fmax.ret)
            ELSE IF col \in KeysContaining("duration")
            THEN duration2human(item_count.ret)
            ELSE NumStr(num_type, item_count.ret)
    IN IF item_count.exc # ""
       THEN [st EXCEPT !.exc = item_count.exc]
       ELSE IF fmax.exc # ""
       THEN [st EXCEPT !.items = items, !.exc = fmax.exc]
       ELSE CountsRowBar(st, items, GetVals(st.w, item, headers, <<>>), item_table_val,
                         item_count.ret, total_max, item_max)

\* utils.py 337-351: the for loop over the rows, from row i on
RECURSIVE CountsRows(_, _, _, _, _, _)
CountsRows(st, i, col, headers, num_type, total_max) ==
    IF i > Len(st.items) \/ st.exc # "" THEN st
    ELSE CountsRows(CountsRow(st, i, col, headers, num_type, total_max),
                    i + 1, col, headers, num_type, total_max)

\* utils.py 352-357: the caption, and the table returned
CountsReturn(st, caption, count_col_name, num_type, total_max) ==
    IF st.exc # "" THEN Raise(st.exc, st.w, VList(st.items))
    ELSE Return([st.table EXCEPT !.caption = caption,
                                 !.count_col_name = count_col_name,
                                 !.num_type = num_type,
                                 !.total_max = total_max],
                st.w, VList(st.items))

\* min(all_counts) in the place of max: the mutant of TotalMax
TotalMaxMin(all_counts) == CHOOSE m \in all_counts : \A c \in all_counts : m <= c

\* utils.py 332: total_max = max(all_counts)
TotalMax(all_counts) == Max(all_counts)

\* utils.py 319-357: counts_table(data), data a non-empty list of dicts
counts_table(w, data) ==
    LET first == data.v[1]
        keys == DictKeys(first)
        count_col_name == CountColName(first)
        rc == RowCounts(data.v, count_col_name, <<>>)
        all_counts == Range(rc.counts)
        num_type == IF Cardinality({c % 10 : c \in all_counts}) = 1 THEN "int" ELSE "float"
        total_max == TotalMax(all_counts)
        headers == SelectSeq(keys, LAMBDA k : k \notin {count_col_name, "total"})
        caption == IF count_col_name \in {"duration", "total_duration"}
                   THEN "Total " \o duration2human(SumSet(all_counts))
                   ELSE ""
    IN IF rc.exc # "" THEN Raise(rc.exc, w, data)
       ELSE CountsReturn(CountsRows([w |-> w, items |-> data.v,
                                     table |-> new_table(headers \o <<"", count_col_name>>),
                                     exc |-> ""],
                                    1, count_col_name, headers, num_type, total_max),
                         caption, count_col_name, num_type, total_max)

\* ------------------------------------------------------------------------
\* console.measure(rend).maximum (generic.py 131) is rich's own; a structural
\* width stands in for it.
\* ------------------------------------------------------------------------
RECURSIVE Measure(_)
Measure(x) ==
    CASE x.t = "str"   -> Len(x.v)
      [] x.t = "Table" -> SumSeq([i \in DOMAIN x.columns |->
                              Max({Len(x.columns[i])}
                                  \cup {Measure(x.rows[r][i]) : r \in DOMAIN x.rows})])
                          + Len(x.columns)
      [] x.t = "Panel" -> Measure(x.content) + 4
      [] x.t = "Tree"  -> 4 + Max({Len(x.title)} \cup {Measure(x.children[i]) : i \in DOMAIN x.children})
      [] x.t = "Bar"   -> 1
      [] x.t = "Align" -> Measure(x.renderable)
      [] OTHER         -> 0

\* generic.py 131: a loop that also appends when the sum reaches the console
\* width, the mutant of PackLines
RECURSIVE PackLinesLoose(_, _, _, _, _, _)
PackLinesLoose(rs, widths, i, lines, line_width, console_width) ==
    IF i > Len(rs) THEN lines
    ELSE IF line_width + widths[i] <= console_width
    THEN PackLinesLoose(rs, widths, i + 1,
                        IF lines = <<>> THEN <<<<rs[i]>>>>
                        ELSE [lines EXCEPT ![Len(lines)] = Append(@, rs[i])],
                        line_width + widths[i], console_width)
    ELSE PackLinesLoose(rs, widths, i + 1, Append(lines, <<rs[i]>>), widths[i],
                        console_width)

\* generic.py 128-140: the row-fill loop over rends[i..], widths[i..]
RECURSIVE PackLines(_, _, _, _, _, _)
PackLines(rs, widths, i, lines, line_width, console_width) ==
    IF i > Len(rs) THEN lines
    ELSE IF line_width + widths[i] < console_width
    THEN PackLines(rs, widths, i + 1,
                   IF lines = <<>> THEN <<<<rs[i]>>>>
                   ELSE [lines EXCEPT ![Len(lines)] = Append(@, rs[i])],
                   line_width + widths[i], console_width)
    ELSE PackLines(rs, widths, i + 1, Append(lines, <<rs[i]>>), widths[i], console_width)

\* generic.py 142-153: a line of one block is the block; a longer line is a
\* one-row table of its blocks
RendLines(lines) ==
    [i \in DOMAIN lines |->
        IF Len(lines[i]) = 1 THEN lines[i][1]
        ELSE [new_table(<<>>) EXCEPT !.columns = [j \in DOMAIN lines[i] |-> ""],
                                     !.rows = <<[j \in DOMAIN lines[i] |->
                                                   [t |-> "Align", align |-> "center",
                                                    vertical |-> "middle",
                                                    renderable |-> lines[i][j]]]>>]]

\* utils.py 247-256: new_tree(values, title).  [ret, rng]
new_tree(g, values, title) ==
    LET c == predictably_random_color(g, VStr(title))
    IN [ret |-> [t |-> "Tree", title |-> wrap(title, "b"), guide_style |-> c.ret,
                 children |-> values],
        rng |-> c.rng]

\* generic.py 62-75 without the isinstance test of line 66, every content
\* going into its row: the mutant of add_to_table
add_to_table_inline(rs, table, content, key) ==
    LET args == (IF key # "" THEN <<VStr(key)>> ELSE <<>>) \o <<content>>
        added == add_row(table, args)
    IN [rends |-> rs, table |-> added.table, exc |-> added.exc]

\* generic.py 62-75: add_to_table(rends, table, content, key).
\* [rends, table, exc]
add_to_table(rs, table, content, key) ==
    IF IsConsoleRenderable(content)
    THEN [rends |-> Append(rs, content), table |-> table, exc |-> ""]
    ELSE LET args == (IF key # "" THEN <<VStr(key)>> ELSE <<>>) \o <<content>>
             added == add_row(table, args)
         IN [rends |-> rs, table |-> added.table, exc |-> added.exc]

\* generic.py 169: " ".join(map(format_with_color, data)).  [ret, rng]
RECURSIVE JoinColored(_, _, _)
JoinColored(g, items, acc) ==
    IF items = <<>> THEN [ret |-> acc, rng |-> g]
    ELSE LET c == format_with_color(g, Head(items))
         IN JoinColored(c.rng, Tail(items),
                        IF acc = "" THEN c.ret ELSE acc \o " " \o c.ret)

\* OrderedSet.union(*map(lambda x: OrderedSet(x.keys()), data)): the keys in
\* first-seen order
RECURSIVE AddNew(_, _)
AddNew(seen, keys) ==
    IF keys = <<>> THEN seen
    ELSE AddNew(IF Head(keys) \in Range(seen) THEN seen ELSE Append(seen, Head(keys)),
                Tail(keys))

RECURSIVE KeyUnion(_, _)
KeyUnion(items, seen) ==
    IF items = <<>> THEN seen
    ELSE KeyUnion(Tail(items), AddNew(seen, DictKeys(Head(items))))

\* generic.py 180-185 with a type count of 1 in place of 2: the mutant of
\* RoutesToCounts
RoutesToCountsOneType(items) ==
    LET keys == KeyUnion(items, <<>>)
        vals_types == {items[1].v[i][2].t : i \in DOMAIN items[1].v}
    IN \/ Len(keys) = 2 /\ Cardinality(vals_types \cap {"int", "float", "str"}) = 1
       \/ \E i \in DOMAIN keys : keys[i] \in KeysContaining("count_")

\* generic.py 178-185: the test that sends a list of dicts to counts_table
RoutesToCounts(items) ==
    LET keys == KeyUnion(items, <<>>)
        vals_types == {items[1].v[i][2].t : i \in DOMAIN items[1].v}
    IN \/ Len(keys) = 2 /\ Cardinality(vals_types \cap {"int", "float", "str"}) = 2
       \/ \E i \in DOMAIN keys : keys[i] \in KeysContaining("count_")

\* generic.py 195-197: all(map(lambda idx: len(set(type(x[idx]) for x in
\* data)) == 1, range(len(data[0])))), from column idx on: "True", "False",
\* or "IndexError" when a list is shorter than the first one
RECURSIVE ColumnsUniform(_, _)
ColumnsUniform(items, idx) ==
    IF idx >= Len(items[1].v) THEN "True"
    ELSE IF \E r \in DOMAIN items : Len(items[r].v) <= idx THEN "IndexError"
    ELSE IF Cardinality({items[r].v[idx + 1].t : r \in DOMAIN items}) # 1 THEN "False"
    ELSE ColumnsUniform(items, idx + 1)

RECURSIVE flexitable(_, _, _)
RECURSIVE dispatch(_, _, _)
RECURSIVE flexitable_dict(_, _, _)
RECURSIVE flexitable_list(_, _, _)
RECURSIVE DictItems(_, _)
RECURSIVE RowCells(_, _)
RECURSIVE ListRows(_, _, _, _)

\* The outcome a of a formatter as the outcome of the call on d
Outcome(a, d) == [ret |-> a.ret, exc |-> a.exc, w |-> a.w, data |-> d]

\* generic.py 90-91: except NotRenderableError, with a the outcome of line 89
flexitable_str_except(a, d, header) ==
    IF a.exc = "NotRenderableError"
    THEN Outcome(Format(a.w, header, VStr(PyStr(d))), d)
    ELSE Outcome(a, d)

\* generic.py 85-91: _str, registered for str and int (and so for bool)
flexitable_str(w, d, header) == flexitable_str_except(Format(w, header, d), d, header)

\* generic.py 94-96: _float
flexitable_float(w, d, header) == Outcome(Format(w, header, VStr(PyStr(d))), d)

\* generic.py 120-123: the for loop over data.items(), from item i on.  st
\* holds the world, the items (as the calls left them), the table, the
\* hoisted blocks and the exception.
DictItems(st, i) ==
    IF i > Len(st.items) \/ st.exc # "" THEN st
    ELSE LET key == st.items[i][1]
             r == flexitable(st.w, st.items[i][2], key)
             items == [st.items EXCEPT ![i] = <<key, r.data>>]
             a == add_to_table(st.rends, st.table, r.ret, key)
         IN IF r.exc # ""
            THEN [st EXCEPT !.w = r.w, !.items = items, !.exc = r.exc]
            ELSE DictItems([w |-> r.w, items |-> items, table |-> a.table,
                            rends |-> a.rends, exc |-> a.exc], i + 1)

\* generic.py 107-159: _dict
flexitable_dict(w, d, header) ==
    LET table == new_table(<<"", "">>)
        st == DictItems([w |-> w, items |-> d.v, table |-> table, rends |-> <<>>,
                         exc |-> ""], 1)
        rs == <<st.table>> \o st.rends
        widths == [i \in DOMAIN rs |-> Measure(rs[i])]
        rend_lines == RendLines(PackLines(rs, widths, 1, <<>>, 0, w.width))
        tree == new_tree(st.w.rng, rend_lines, header)
    IN IF st.exc # "" THEN Raise(st.exc, st.w, VDict(st.items))
       ELSE IF header = "" THEN Return(VList(rend_lines), st.w, VDict(st.items))
       ELSE Return(tree.ret, [st.w EXCEPT !.rng = tree.rng], VDict(st.items))

\* generic.py 199: map(flexitable, item_list), left to right.  st holds the
\* world, the elements (as the calls left them), the cells and the exception.
RowCells(st, j) ==
    IF j > Len(st.items) \/ st.exc # "" THEN st
    ELSE LET r == flexitable(st.w, st.items[j], "")
         IN RowCells([w |-> r.w, items |-> [st.items EXCEPT ![j] = r.data],
                      cells |-> IF r.exc = "" THEN Append(st.cells, r.ret) ELSE st.cells,
                      exc |-> r.exc], j + 1)

\* generic.py 198-199 (positional = TRUE) and 202-203 (positional = FALSE):
\* the for loop that adds one row per element, from element i on
ListRows(st, i, header, positional) ==
    IF i > Len(st.items) \/ st.exc # "" THEN st
    ELSE LET cs == RowCells([w |-> st.w, items |-> st.items[i].v, cells |-> <<>>,
                             exc |-> ""], 1)
             one == flexitable(st.w, st.items[i], header)
             w1 == IF positional THEN cs.w ELSE one.w
             item == IF positional THEN VList(cs.items) ELSE one.data
             exc == IF positional THEN cs.exc ELSE one.exc
             added == add_row(st.table, IF positional THEN cs.cells ELSE <<one.ret>>)
             items == [st.items EXCEPT ![i] = item]
         IN IF exc # "" THEN [st EXCEPT !.w = w1, !.items = items, !.exc = exc]
            ELSE ListRows([w |-> w1, items |-> items, table |-> added.table,
                           exc |-> added.exc], i + 1, header, positional)

\* generic.py 205-213: the headers styled and the table in its panel, st
\* the rows as the loop left them
flexitable_list_panel(st, header) ==
    LET c == predictably_random_color(st.w.rng, VStr(header))
        styled == [st.table EXCEPT !.columns =
                      [i \in DOMAIN @ |->
                          IF @[i] # "" THEN wrap(" " \o @[i] \o " ", "i b " \o c.ret \o " on grey7")
                          ELSE ""]]
        w2 == [st.w EXCEPT !.rng = c.rng]
    IN IF st.exc # ""
       THEN Raise(st.exc, st.w, VList(st.items))
       ELSE IF header # ""
       THEN Return(Panel(styled, wrap(header, "b"), "dim " \o c.ret), w2, VList(st.items))
       ELSE Return(Panel(styled, "", ""), w2, VList(st.items))

\* generic.py 195-203: the rows of a list that is not a list of dicts,
\* uniform the outcome of the test of lines 195-197
flexitable_list_rows(w, d, header, uniform) ==
    IF uniform = "IndexError"
    THEN Raise("IndexError", w, d)
    ELSE flexitable_list_panel(
             ListRows([w |-> w, items |-> d.v, table |-> new_table(<<>>), exc |-> ""],
                      1, header, uniform = "True"),
             header)

\* generic.py 167-169: the strs joined
flexitable_list_joined(w, d, joined) ==
    Return(VStr(joined.ret), [w EXCEPT !.rng = joined.rng], d)

\* the only element taken twice over, as a list: the mutant of Unwrapped
UnwrappedTwice(items) == VList(<<items[1], items[1]>>)

\* generic.py 172: data[0], the only element of the list
Unwrapped(items) == items[1]

\* generic.py 162-213: _list
flexitable_list(w, d, header) ==
    LET items == d.v
        only(type) == \A i \in DOMAIN items : items[i].t = type
        single == flexitable(w, Unwrapped(items), header)
    IN IF only("str")
       THEN flexitable_list_joined(w, d, JoinColored(w.rng, items, ""))
       ELSE IF Len(items) = 1
       THEN [single EXCEPT !.data = VList(<<single.data>>)]
       ELSE IF only("dict")
       THEN IF RoutesToCounts(items)
            THEN counts_table(w, d)
            ELSE Raise("AttributeError", w, d)      \* generic.py 194: take_dict_item
       ELSE flexitable_list_rows(w, d, header,
                                 IF only("list") THEN ColumnsUniform(items, 0) ELSE "False")

\* generic.py 83-84, 94, 106, 162: the singledispatch registrations, and the
\* base function of lines 76-80 for every other type
dispatch(w, d, header) ==
    CASE d.t \in {"str", "int", "bool"} -> flexitable_str(w, d, header)
      [] d.t = "float"                  -> flexitable_float(w, d, header)
      [] d.t = "dict"                   -> flexitable_dict(w, d, header)
      [] d.t = "list"                   -> flexitable_list(w, d, header)
      [] OTHER                          -> Return(d, w, d)

\* A call of flexitable on d is entered: w.active holds the arguments of the
\* calls that have not returned yet, innermost last, and w.log every call
\* made, with its depth and the argument of its caller.
Enter(w, d, header) ==
    [w EXCEPT !.active = Append(@, d),
              !.log = Append(@, [d |-> d, header |-> header,
                                 depth |-> Len(w.active) + 1,
                                 caller |-> IF w.active = <<>> THEN None
                                            ELSE w.active[Len(w.active)]])]

\* the call returns or raises with outcome r: it is no longer active
Leave(w, r) == [r EXCEPT !.w.active = w.active]

\* generic.py 76-79: flexitable(data, header)
flexitable(w, d, header) == Leave(w, dispatch(Enter(w, d, header), d, header))

\* ------------------------------------------------------------------------
\* The values rendered
\* ------------------------------------------------------------------------
MaxListLen == 2
MaxKeys == 2

Scalars == {None, VBool(TRUE), VInt(1), VFloat(25), VStr("a"), VStr("7")}

ListElems ==
    Scalars \cup {VList(<<VInt(1)>>), VList(<<VInt(1), VInt(2)>>), VList(<<VStr("a")>>),
                  VDict(<< <<"a", VInt(1)>> >>)}

Lists == {VList(s) : s \in SeqsUpTo(ListElems, MaxListLen)}

Row(k1, v1, k2, v2) == VDict(<< <<k1, v1>>, <<k2, v2>> >>)

CountNameRows ==
    {Row("count", VInt(10), "name", VStr("a")),
     Row("count", VInt(5), "name", VStr("b")),
     Row("count", VFloat(25), "name", VStr("a")),
     Row("name", VStr("a"), "count", VInt(10)),
     Row("name", VStr("b"), "count", VFloat(25))}

OtherRows ==
    {Row("count", VStr("x"), "name", VStr("a")),
     Row("count", VBool(TRUE), "name", VStr("a")),
     Row("count_x", VInt(1), "a", VInt(2)),
     VDict(<< <<"count", VInt(5)>> >>),
     VDict(<< <<"a", VInt(1)>> >>)}

Rows == CountNameRows \cup OtherRows

RowLists == {VList(s) : s \in {q \in SeqsUpTo(Rows, MaxListLen) : Len(q) >= 2}}

DictKeyNames == {"a", "b", "bpm", ""}

DictValues ==
    {VInt(1), VStr("a"),
     VList(<<VInt(1), VInt(2)>>),
     VDict(<< <<"a", VInt(1)>> >>),
     VList(<<Row("count", VInt(10), "name", VStr("a")),
             Row("count", VInt(5), "name", VStr("b"))>>)}

Dicts ==
    {VDict(s) : s \in {q \in SeqsUpTo(DictKeyNames \X DictValues, MaxKeys) :
                          \A i, j \in DOMAIN q : i # j => q[i][1] # q[j][1]}}

Inputs == Scalars \cup Lists \cup RowLists \cup Dicts

Labels == {"", "a", "bpm", "file"}

ConsoleWidths == {16, 80}

World == [fields |-> fields, rng |-> rng, width |-> console.width,
          active |-> <<>>, log |-> <<>>]

RenderInit ==
    /\ input \in Inputs
    /\ fields = RegisteredFields
    /\ rng = seed(VStr("os1"))
    /\ console \in [width : ConsoleWidths]
    /\ result = None
    /\ prev = None
    /\ op = None
    /\ calls = <<>>
    /\ stack = <<>>

\* table.py 300-307: flexitable(input, label); the same object may be rendered
\* again
Render(label) ==
    /\ IF op = None THEN TRUE ELSE op.arg = label
    /\ LET r == flexitable(World, input, label)
       IN /\ input' = r.data
          /\ fields' = r.w.fields
          /\ rng' = r.w.rng
          /\ result' = [ret |-> r.ret, exc |-> r.exc]
          /\ calls' = r.w.log
    /\ prev' = [input |-> input, fields |-> fields, result |-> result]
    /\ op' = [fn |-> "flexitable", arg |-> label]
    /\ UNCHANGED <<console, stack>>

\* ------------------------------------------------------------------------
\* Direct calls of the two functions that use the generator
\* ------------------------------------------------------------------------
MaxCalls == 3
ColorLabels == {"", "a", "bpm", "file"}
BarCounts == {0, 25, 50, 100}
BarMaxima == {50, 100}

CallColor(label) ==
    /\ Len(calls) < MaxCalls
    /\ LET r == predictably_random_color(rng, VStr(label))
       IN /\ rng' = r.rng
          /\ result' = VStr(r.ret)
          /\ calls' = Append(calls, [fn |-> "predictably_random_color",
                                     arg |-> label, ret |-> r.ret,
                                     channels |-> r.channels])
    /\ op' = [fn |-> "predictably_random_color", arg |-> label]
    /\ UNCHANGED <<input, fields, console, prev, stack>>

CallProgressBar(count, total_max, item_max) ==
    /\ Len(calls) < MaxCalls
    /\ LET r == progress_bar(rng, count, total_max, item_max)
       IN /\ rng' = r.rng
          /\ result' = r.ret
          /\ calls' = Append(calls, [fn |-> "progress_bar",
                                     arg |-> FloatStr(total_max), ret |-> r.ret.color,
                                     channels |-> r.ret.channels])
    /\ op' = [fn |-> "progress_bar", arg |-> <<count, total_max, item_max>>]
    /\ UNCHANGED <<input, fields, console, prev, stack>>

\* ========================================================================
\* make_bicolumn_layout (generic.py 29-59)
\* ========================================================================
MaxBlocks == 3
MaxRows == 2
RowOverhead == 6

\* A block: rows is renderable.row_count, or -1 when the block has no
\* renderable.row_count attribute (AttributeError); expand is its flag.
NoRows == -1
Blocks == [rows : (0..MaxRows) \cup {NoRows}, expand : BOOLEAN]

IdleLayout ==
    /\ rends = <<>>
    /\ pos = 0
    /\ col_rows = [left |-> 0, right |-> 0]
    /\ divided = [left |-> <<>>, right |-> <<>>]
    /\ standalone = <<>>
    /\ lay = None

\* generic.py 30-32: the locals before the loop
LayoutInit ==
    /\ rends \in SeqsUpTo(Blocks, MaxBlocks)
    /\ pos = 0
    /\ col_rows = [left |-> 0, right |-> 0]
    /\ divided = [left |-> <<>>, right |-> <<>>]
    /\ standalone = <<>>
    /\ lay = None

\* generic.py 41: an always-left choice, the mutant of ChooseSide
ChooseSideAlwaysLeft(cr) == "left"

\* generic.py 41
ChooseSide(cr) == IF cr.left <= cr.right THEN "left" ELSE "right"

\* generic.py 33-43: one iteration of the for loop
LayoutStep ==
    /\ lay = None
    /\ pos < Len(rends)
    /\ LET rend == [rends[pos + 1] EXCEPT !.expand = FALSE]
       IN /\ rends' = [rends EXCEPT ![pos + 1] = rend]
          /\ IF rend.rows = NoRows
             THEN /\ standalone' = Append(standalone, rend)
                  /\ UNCHANGED <<col_rows, divided>>
             ELSE LET row_count == rend.rows + RowOverhead
                      side == ChooseSide(col_rows)
                  IN /\ divided' = [divided EXCEPT ![side] = Append(@, rend)]
                     /\ col_rows' = [col_rows EXCEPT ![side] = @ + row_count]
                     /\ UNCHANGED standalone
    /\ pos' = pos + 1
    /\ UNCHANGED lay

\* generic.py 45-59: pair the blocks by position, rends[::2] with rends[1::2]
PairUp(rs) ==
    [k \in 1..((Len(rs) + 1) \div 2) |->
        IF 2 * k <= Len(rs) THEN <<rs[2 * k - 1], rs[2 * k]>>
                            ELSE <<rs[2 * k - 1]>>]

LayoutReturn ==
    /\ lay = None
    /\ pos = Len(rends)
    /\ lay' = [t |-> "group", rows |-> PairUp(rends)]
    /\ UNCHANGED <<rends, pos, col_rows, divided, standalone>>

\* ========================================================================
\* make_difftext (utils.py 51-80)
\*
\* A str is a sequence of one-character strings.  Indices into a and b are
\* 0-based as in the code: a[i] of the code is a[i + 1] here.
\* ========================================================================
MaxBeforeLen == 3
MaxAfterLen == 2
DiffChars == {"a", " ", "[", "\\"}
Whitespace == {" ", "\t", "\n", "\r"}
AsciiLetters == {"a", "b", "c", "x", "y", "z", "A", "B", "C", "X", "Y", "Z"}

\* utils.py 71, 76: the junk predicate, lambda x: x in whitespace + ascii_letters
IsJunk(c) == c \in Whitespace \cup AsciiLetters

\* a[lo:hi]
Slice(s, lo, hi) == SubSeq(s, lo + 1, hi)

\* utils.py 73-74: re.sub(r"\\?\[", r"\\[", s)
RECURSIVE EscapeBrackets(_)
EscapeBrackets(s) ==
    IF s = <<>> THEN <<>>
    ELSE IF Len(s) >= 2 /\ s[1] = "\\" /\ s[2] = "["
         THEN <<"\\", "[">> \o EscapeBrackets(SubSeq(s, 3, Len(s)))
    ELSE IF s[1] = "["
         THEN <<"\\", "[">> \o EscapeBrackets(Tail(s))
    ELSE <<s[1]>> \o EscapeBrackets(Tail(s))

\* difflib find_longest_match, the j2len table: the length of the longest
\* junk-free match that ends with a[i] and b[j] inside a[alo:], b[blo:bhi]
RECURSIVE MatchLen(_, _, _, _, _, _, _)
MatchLen(a, b, alo, blo, bhi, i, j) ==
    IF i < alo \/ j < blo \/ j >= bhi THEN 0
    ELSE IF IsJunk(b[j + 1]) \/ a[i + 1] # b[j + 1] THEN 0
    ELSE 1 + MatchLen(a, b, alo, blo, bhi, i - 1, j - 1)

\* difflib find_longest_match, the two while loops that extend a match to the
\* left and to the right over elements that are junk (junk = TRUE) or not
RECURSIVE ExtendLeft(_, _, _, _, _, _)
ExtendLeft(a, b, alo, blo, m, junk) ==
    IF m.i > alo /\ m.j > blo /\ IsJunk(b[m.j]) = junk /\ a[m.i] = b[m.j]
    THEN ExtendLeft(a, b, alo, blo, [i |-> m.i - 1, j |-> m.j - 1, k |-> m.k + 1], junk)
    ELSE m

RECURSIVE ExtendRight(_, _, _, _, _, _)
ExtendRight(a, b, ahi, bhi, m, junk) ==
    IF m.i + m.k < ahi /\ m.j + m.k < bhi /\ IsJunk(b[m.j + m.k + 1]) = junk
       /\ a[m.i + m.k + 1] = b[m.j + m.k + 1]
    THEN ExtendRight(a, b, ahi, bhi, [m EXCEPT !.k = @ + 1], junk)
    ELSE m

\* difflib SequenceMatcher.find_longest_match(alo, ahi, blo, bhi): the first
\* pair (i, j), in the order of the two for loops, that reaches the greatest
\* junk-free length, then extended by non-junk and by junk on both sides
find_longest_match(a, b, alo, ahi, blo, bhi) ==
    LET pairs == (alo..(ahi - 1)) \X (blo..(bhi - 1))
        len(p) == MatchLen(a, b, alo, blo, bhi, p[1], p[2])
        bestsize == IF pairs = {} THEN 0 ELSE Max({len(p) : p \in pairs})
        earlier(p, q) == p[1] < q[1] \/ (p[1] = q[1] /\ p[2] <= q[2])
        best == IF bestsize = 0 THEN [i |-> alo, j |-> blo, k |-> 0]
                ELSE LET at == CHOOSE p \in pairs :
                                  /\ len(p) = bestsize
                                  /\ \A q \in pairs : len(q) = bestsize => earlier(p, q)
                     IN [i |-> at[1] - bestsize + 1, j |-> at[2] - bestsize + 1,
                         k |-> bestsize]
        m1 == ExtendLeft(a, b, alo, blo, best, FALSE)
        m2 == ExtendRight(a, b, ahi, bhi, m1, FALSE)
        m3 == ExtendLeft(a, b, alo, blo, m2, TRUE)
    IN ExtendRight(a, b, ahi, bhi, m3, TRUE)

\* difflib get_matching_blocks, the queue loop: the blocks found in
\* a[alo:ahi], b[blo:bhi]
RECURSIVE MatchingBlocks(_, _, _, _, _, _)
MatchingBlocks(a, b, alo, ahi, blo, bhi) ==
    LET m == find_longest_match(a, b, alo, ahi, blo, bhi)
    IN IF m.k = 0 THEN {}
       ELSE {m}
            \cup (IF alo < m.i /\ blo < m.j
                  THEN MatchingBlocks(a, b, alo, m.i, blo, m.j) ELSE {})
            \cup (IF m.i + m.k < ahi /\ m.j + m.k < bhi
                  THEN MatchingBlocks(a, b, m.i + m.k, ahi, m.j + m.k, bhi) ELSE {})

\* matching_blocks.sort(): tuples (i, j, k) in lexicographic order
BlockBefore(x, y) ==
    \/ x.i < y.i
    \/ x.i = y.i /\ x.j < y.j
    \/ x.i = y.i /\ x.j = y.j /\ x.k <= y.k

RECURSIVE SortBlocks(_)
SortBlocks(S) ==
    IF S = {} THEN <<>>
    ELSE LET x == CHOOSE x \in S : \A y \in S : BlockBefore(x, y)
         IN <<x>> \o SortBlocks(S \ {x})

\* difflib get_matching_blocks, the loop that merges adjacent blocks; cur is
\* (i1, j1, k1)
RECURSIVE Collapse(_, _)
Collapse(blocks, cur) ==
    IF blocks = <<>>
    THEN IF cur.k # 0 THEN <<cur>> ELSE <<>>
    ELSE LET x == Head(blocks)
         IN IF cur.i + cur.k = x.i /\ cur.j + cur.k = x.j
            THEN Collapse(Tail(blocks), [cur EXCEPT !.k = @ + x.k])
            ELSE (IF cur.k # 0 THEN <<cur>> ELSE <<>>) \o Collapse(Tail(blocks), x)

\* difflib SequenceMatcher.get_matching_blocks()
get_matching_blocks(a, b) ==
    Append(Collapse(SortBlocks(MatchingBlocks(a, b, 0, Len(a), 0, Len(b))),
                    [i |-> 0, j |-> 0, k |-> 0]),
           [i |-> Len(a), j |-> Len(b), k |-> 0])

\* difflib SequenceMatcher.get_opcodes(): i and j are the ends of the
\* previous block
RECURSIVE Opcodes(_, _, _)
Opcodes(blocks, i, j) ==
    IF blocks = <<>> THEN <<>>
    ELSE LET m == Head(blocks)
             tag == IF i < m.i /\ j < m.j THEN "replace"
                    ELSE IF i < m.i THEN "delete"
                    ELSE IF j < m.j THEN "insert"
                    ELSE ""
             gap == IF tag # ""
                    THEN <<[code |-> tag, a1 |-> i, a2 |-> m.i, b1 |-> j, b2 |-> m.j]>>
                    ELSE <<>>
             eq == IF m.k # 0
                   THEN <<[code |-> "equal", a1 |-> m.i, a2 |-> m.i + m.k,
                           b1 |-> m.j, b2 |-> m.j + m.k]>>
                   ELSE <<>>
         IN gap \o eq \o Opcodes(Tail(blocks), m.i + m.k, m.j + m.k)

get_opcodes(a, b) == Opcodes(get_matching_blocks(a, b), 0, 0)

\* A fragment of the markup emitted: wrap(text, style); under says that the
\* text is wrapped once more, in [u green]...[/].
Fragment(style, text, under) == [style |-> style, text |-> text, under |-> under]

\* utils.py 51-52: an insertion that is whitespace only is underlined
format_new(string) ==
    Fragment("b green", string, string # <<>> /\ \A i \in DOMAIN string : string[i] \in Whitespace)

\* utils.py 55-56
format_old(string) == Fragment("b s red", string, FALSE)

\* utils.py 59-67 with the deleted text styled in place of the inserted text
\* of a replace: the mutant of fmtdiff
fmtdiff_dropnew(change, old, new) ==
    CASE change = "insert"  -> <<format_new(new)>>
      [] change = "delete"  -> <<format_old(old)>>
      [] change = "replace" -> <<format_old(old), format_new(old)>>
      [] OTHER              -> <<Fragment("dim", old, FALSE)>>

\* utils.py 59-67
fmtdiff(change, old, new) ==
    CASE change = "insert"  -> <<format_new(new)>>
      [] change = "delete"  -> <<format_old(old)>>
      [] change = "replace" -> <<format_old(old), format_new(new)>>
      [] OTHER              -> <<Fragment("dim", old, FALSE)>>

RECURSIVE EmitAll(_, _, _)
EmitAll(ops, a, b) ==
    IF ops = <<>> THEN <<>>
    ELSE LET o == Head(ops)
         IN fmtdiff(o.code, Slice(a, o.a1, o.a2), Slice(b, o.b1, o.b2))
            \o EmitAll(Tail(ops), a, b)

\* utils.py 70-80: the fragments of the markup returned, in order
make_difftext(s1, s2) ==
    LET a == EscapeBrackets(s1)
        b == EscapeBrackets(s2)
    IN EmitAll(get_opcodes(a, b), a, b)

DiffInit ==
    /\ before \in SeqsUpTo(DiffChars, MaxBeforeLen)
    /\ after \in SeqsUpTo(DiffChars, MaxAfterLen)
    /\ diff = None

CallMakeDifftext ==
    /\ diff = None
    /\ diff' = [t |-> "markup", fragments |-> make_difftext(before, after)]
    /\ UNCHANGED <<before, after>>

IdleRender ==
    /\ input = None
    /\ fields = <<>>
    /\ rng = None
    /\ console = None
    /\ result = None
    /\ prev = None
    /\ op = None
    /\ calls = <<>>
    /\ stack = <<>>

IdleDiff ==
    /\ before = <<>>
    /\ after = <<>>
    /\ diff = None

Init == RenderInit /\ IdleLayout /\ IdleDiff

Next == \E label \in Labels : Render(label) /\ UNCHANGED layoutVars /\ UNCHANGED diffVars

Spec == Init /\ [][Next]_vars

Rendered == op # None /\ op.fn = "flexitable"

IsScalar(x) == x.t \in {"null", "bool", "int", "float", "str"}

\* a list of two or more numbers
IsNumberList(x) ==
    /\ x.t = "list"
    /\ Len(x.v) >= 2
    /\ \A i \in DOMAIN x.v : x.v[i].t \in {"int", "float"}

\* C1 (as claimed): flexitable(value, label) returns a result without raising
\* for every value and every label.
C1_NeverRaises == Rendered => result.exc = ""

\* The formatter FIELDS_MAP holds for `key` raises on the scalar x, as
\* flexitable hands it over (a float as its str)
FormatterRaises(fm, x, key) ==
    /\ x.t \in {"str", "int", "float"}
    /\ ApplyFormatter(FieldsGet(fm, key).fmt,
                      IF x.t = "float" THEN VStr(PyStr(x)) ELSE x, None).exc # ""

\* C2 (as claimed): when the formatter registered for a label raises on a
\* scalar, the render of the scalar yields the raw stringified value, and the
\* render of a surrounding map completes normally.
C2_Contained ==
    /\ (Rendered /\ FormatterRaises(prev.fields, prev.input, op.arg))
           => (result.exc = "" /\ result.ret = VStr(PyStr(prev.input)))
    /\ (Rendered /\ prev.input.t = "dict"
          /\ \A i \in DOMAIN prev.input.v : IsScalar(prev.input.v[i][2])
          /\ \E j \in DOMAIN prev.input.v :
                 FormatterRaises(prev.fields, prev.input.v[j][2], prev.input.v[j][1]))
           => result.exc = ""

\* The blocks _dict returned, in order: the lines of a list or of a tree,
\* each line taken apart again
RECURSIVE Flatten(_)
Flatten(lines) ==
    IF lines = <<>> THEN <<>>
    ELSE LET x == Head(lines)
         IN (IF x.t = "Table" /\ Len(x.rows) = 1 /\ x.rows[1] # <<>>
                /\ x.rows[1][1].t = "Align"
             THEN [j \in DOMAIN x.rows[1] |-> x.rows[1][j].renderable]
             ELSE <<x>>) \o Flatten(Tail(lines))

DictBlocks == Flatten(IF result.ret.t = "list" THEN result.ret.v ELSE result.ret.children)

MapRendered == Rendered /\ prev.input.t = "dict" /\ result.exc = ""

KeysWhere(items, P(_)) ==
    LET kept == SelectSeq(items, LAMBDA it : P(it[2]))
    IN [i \in DOMAIN kept |-> kept[i][1]]

IsCountNameList(x) ==
    /\ x.t = "list"
    /\ Len(x.v) >= 2
    /\ \A i \in DOMAIN x.v :
           /\ x.v[i].t = "dict"
           /\ Len(x.v[i].v) = 2
           /\ Range(DictKeys(x.v[i])) = {"count", "name"}
           /\ DictGet(x.v[i], "count", None).t \in {"int", "float"}
           /\ DictGet(x.v[i], "name", None).t = "str"

\* the table counts_table returns: its last two columns are the count text
\* and the bar
IsCountsTable(x) ==
    /\ x.t = "Table"
    /\ x.count_col_name # ""
    /\ \A r \in DOMAIN x.rows : x.rows[r][Len(x.rows[r])].t = "Bar"

\* C4: a list of two or more maps with exactly the keys "count" and "name",
\* count numeric and name a string, is routed to counts_table: the result is
\* the counts table on the column "count", one row with a bar per map.
C4_CountsRouting ==
    (Rendered /\ IsCountNameList(prev.input)) =>
        /\ result.exc = ""
        /\ IsCountsTable(result.ret)
        /\ result.ret.count_col_name = "count"
        /\ result.ret.columns = <<"name", "", "count">>
        /\ Len(result.ret.rows) = Len(prev.input.v)

\* C4 witness: [{"count": 10, "name": "a"}, {"name": "b", "count": 2.5}] was
\* rendered into a counts table of two rows
C4_Witness ==
    /\ Rendered
    /\ prev.input = VList(<<Row("count", VInt(10), "name", VStr("a")),
                            Row("name", VStr("b"), "count", VFloat(25))>>)
    /\ IsCountsTable(result.ret)
    /\ Len(result.ret.rows) = 2

\* C9 (as claimed): a render pass leaves FIELDS_MAP unchanged, its keys and
\* the formatter bound to each.
C9_RegistryUnchanged == Rendered => fields = prev.fields

\* C10 (as claimed): flexitable does not modify its argument, and rendering
\* the same object a second time gives the result of the first time.
C10_InputUnchanged ==
    /\ Rendered => input = prev.input
    /\ (Rendered /\ prev.result # None) => result = prev.result

\* ------------------------------------------------------------------------
\* Nested values: flexitable on values nested up to MaxDepth wrappers deep.
\* The program runs on once called, so the call is taken under weak fairness.
\* ------------------------------------------------------------------------
MaxDepth == 3

NestedBases == {None, VInt(1), VStr("a"), VFloat(25)}

\* x one level (two, for the rows of a table) further inside
Wrappers(x) ==
    {VList(<<x>>), VList(<<x, VInt(1)>>), VList(<<VList(<<x>>), VList(<<x>>)>>),
     VDict(<< <<"", x>> >>), VDict(<< <<"bpm", x>> >>)}

RECURSIVE Nested(_)
Nested(n) ==
    IF n = 0 THEN NestedBases
    ELSE Nested(n - 1) \cup UNION {Wrappers(x) : x \in Nested(n - 1)}

\* the values directly inside a list or a map
Children(d) ==
    CASE d.t = "list" -> d.v
      [] d.t = "dict" -> [i \in DOMAIN d.v |-> d.v[i][2]]
      [] OTHER        -> <<>>

\* how deep lists and maps are nested in d: 0 for a scalar
RECURSIVE NestingDepth(_)
NestingDepth(d) ==
    IF d.t \in {"list", "dict"}
    THEN 1 + Max({0} \cup {NestingDepth(Children(d)[i]) : i \in DOMAIN Children(d)})
    ELSE 0

\* the number of values in d, d itself counted
RECURSIVE Size(_)
Size(d) == 1 + SumSeq([i \in DOMAIN Children(d) |-> Size(Children(d)[i])])

\* x is a value strictly inside y
RECURSIVE ProperSubValue(_, _)
ProperSubValue(x, y) ==
    \E i \in DOMAIN Children(y) : x = Children(y)[i] \/ ProperSubValue(x, Children(y)[i])

\* ------------------------------------------------------------------------
\* flexitable step by step: one step enters a call, hands a returned value to
\* its caller, or leaves a call.  `result` holds what the call that has just
\* returned handed back, [kind, exc], and None while a call is running.
\* ------------------------------------------------------------------------
\* what a call hands back, as far as its caller tells values apart: "none",
\* "str", "renderable" (a ConsoleRenderable) or "list" (the Python list _dict
\* returns at generic.py 156, which add_row cannot render)
KindOf(ret) ==
    CASE ret.t = "null"           -> "none"
      [] ret.t = "str"            -> "str"
      [] IsConsoleRenderable(ret) -> "renderable"
      [] OTHER                    -> "list"

Returned(kind) == [kind |-> kind, exc |-> ""]
Raised(exc) == [kind |-> "none", exc |-> exc]

\* the outcome of a call that makes no call of flexitable itself
Direct(r) == IF r.exc # "" THEN Raised(r.exc) ELSE Returned(KindOf(r.ret))

\* generic.py 198-199: the cells of the rows, row after row, the last cell
\* of each row marked
RECURSIVE CellCalls(_)
CellCalls(items) ==
    IF items = <<>> THEN <<>>
    ELSE [j \in DOMAIN Head(items).v |->
             [d |-> Head(items).v[j], header |-> "", endrow |-> j = Len(Head(items).v)]]
         \o CellCalls(Tail(items))

\* What the handler of d does with the calls of flexitable it makes
\* (`callees`, in order), or its outcome `out` when it makes none:
\*   "direct"  no call (a scalar, generic.py 85-96; a list of strs, 167-169;
\*             a list of dicts, 176-194)
\*   "unwrap"  return flexitable(data[0], header), 171-172
\*   "items"   _dict: add_to_table of each value, 118-121
\*   "cells"   _list: add_row of the cells of each row, 198-199
\*   "rows"    _list: add_row of each element, 202-203
Plan(w, d, header) ==
    LET items == d.v
        only(type) == \A i \in DOMAIN items : items[i].t = type
    IN CASE d.t \in {"str", "int", "bool"} ->
                [tag |-> "direct", out |-> Direct(flexitable_str(w, d, header)), callees |-> <<>>]
         [] d.t = "float" ->
                [tag |-> "direct", out |-> Direct(flexitable_float(w, d, header)), callees |-> <<>>]
         [] d.t = "dict" ->
                [tag |-> "items", out |-> None,
                 callees |-> [i \in DOMAIN items |->
                                 [d |-> items[i][2], header |-> items[i][1], endrow |-> TRUE]]]
         [] d.t = "list" ->
                IF only("str")
                THEN [tag |-> "direct", out |-> Returned("str"), callees |-> <<>>]
                ELSE IF Len(items) = 1
                THEN [tag |-> "unwrap", out |-> None,
                      callees |-> <<[d |-> Unwrapped(items), header |-> header, endrow |-> TRUE]>>]
                ELSE IF only("dict")
                THEN [tag |-> "direct",
                      out |-> IF RoutesToCounts(items) THEN Direct(counts_table(w, d))
                              ELSE Raised("AttributeError"),
                      callees |-> <<>>]
                ELSE IF only("list") /\ ColumnsUniform(items, 0) = "IndexError"
                THEN [tag |-> "direct", out |-> Raised("IndexError"), callees |-> <<>>]
                ELSE IF only("list") /\ ColumnsUniform(items, 0) = "True"
                THEN [tag |-> "cells", out |-> None, callees |-> CellCalls(items)]
                ELSE [tag |-> "rows", out |-> None,
                      callees |-> [i \in DOMAIN items |->
                                      [d |-> items[i], header |-> header, endrow |-> TRUE]]]
         [] OTHER -> [tag |-> "direct", out |-> Returned(KindOf(d)), callees |-> <<>>]

\* a call of flexitable on d, made from the innermost call running
Frame(d, header) == [d |-> d, header |-> header, next |-> 1, bad |-> FALSE]

Entry(d, header) ==
    [d |-> d, header |-> header, depth |-> Len(stack) + 1,
     caller |-> IF stack = <<>> THEN None ELSE stack[Len(stack)].d]

Top == stack[Len(stack)]
Pop == SubSeq(stack, 1, Len(stack) - 1)

\* table.py 300-307: flexitable(input, label) is called
Call(label) ==
    /\ op = None
    /\ stack' = <<Frame(input, label)>>
    /\ calls' = <<Entry(input, label)>>
    /\ op' = [fn |-> "flexitable", arg |-> label]
    /\ UNCHANGED <<input, fields, rng, console, result, prev>>

\* the innermost call makes its next call of flexitable
Descend ==
    /\ stack # <<>> /\ result = None
    /\ LET plan == Plan(World, Top.d, Top.header)
       IN /\ Top.next <= Len(plan.callees)
          /\ stack' = Append([stack EXCEPT ![Len(stack)].next = @ + 1],
                             Frame(plan.callees[Top.next].d, plan.callees[Top.next].header))
          /\ calls' = Append(calls, Entry(plan.callees[Top.next].d,
                                          plan.callees[Top.next].header))
    /\ UNCHANGED <<input, fields, rng, console, result, prev, op>>

\* the innermost call has no call left to make: it returns (a list from
\* _dict without header, generic.py 155-156, a tree or a panel otherwise) or
\* raises
Leave1 ==
    /\ stack # <<>> /\ result = None
    /\ LET plan == Plan(World, Top.d, Top.header)
       IN /\ Top.next > Len(plan.callees)
          /\ result' = IF plan.tag = "direct" THEN plan.out
                       ELSE IF plan.tag = "items" /\ Top.header = "" THEN Returned("list")
                       ELSE Returned("renderable")
    /\ stack' = Pop
    /\ UNCHANGED <<input, fields, rng, console, prev, op, calls>>

\* a call has returned or raised into the call that made it: an exception
\* goes on to the caller's caller, a returned value goes where the caller
\* puts it (add_to_table, generic.py 62-75; add_row, 199 and 203)
Resume ==
    /\ stack # <<>> /\ result # None
    /\ LET plan == Plan(World, Top.d, Top.header)
           done == plan.callees[Top.next - 1]
           bad == Top.bad \/ result.kind = "list"
       IN IF result.exc # ""
          THEN stack' = Pop /\ result' = result
          ELSE IF plan.tag = "unwrap"
          THEN stack' = Pop /\ result' = result
          ELSE IF bad /\ done.endrow
          THEN stack' = Pop /\ result' = Raised("NotRenderableError")
          ELSE /\ stack' = [stack EXCEPT ![Len(stack)].bad = bad /\ ~done.endrow]
               /\ result' = None
    /\ UNCHANGED <<input, fields, rng, console, prev, op, calls>>

NestedLabels == {"", "a"}

SpecNestedInit ==
    /\ input \in Nested(MaxDepth)
    /\ fields = RegisteredFields
    /\ rng = seed(VStr("os1"))
    /\ console = [width |-> 80]
    /\ result = None
    /\ prev = None
    /\ op = None
    /\ calls = <<>>
    /\ stack = <<>>
    /\ IdleLayout
    /\ IdleDiff

SpecNestedNext ==
    \/ \E label \in NestedLabels : Call(label) /\ UNCHANGED layoutVars /\ UNCHANGED diffVars
    \/ Descend /\ UNCHANGED layoutVars /\ UNCHANGED diffVars
    \/ Leave1 /\ UNCHANGED layoutVars /\ UNCHANGED diffVars
    \/ Resume /\ UNCHANGED layoutVars /\ UNCHANGED diffVars

SpecNested == SpecNestedInit /\ [][SpecNestedNext]_vars /\ WF_vars(SpecNestedNext)

\* the outermost call has returned or raised
Finished == op # None /\ stack = <<>>

\* every call running is made on a value strictly inside the argument of its
\* caller, and the calls are nested no deeper than lists and maps are in the
\* value rendered
StackBounded ==
    /\ Len(stack) <= 1 + NestingDepth(input)
    /\ \A i \in DOMAIN stack :
           i > 1 => /\ ProperSubValue(stack[i].d, stack[i - 1].d)
                    /\ Size(stack[i].d) < Size(stack[i - 1].d)
    /\ Len(calls) <= Size(input)

\* the steps make the calls flexitable makes, and end as it ends
StepsAgree ==
    Finished =>
        LET r == flexitable(World, input, op.arg)
        IN /\ calls = r.w.log
           /\ result.exc = r.exc
           /\ result.exc = "" => result.kind = KindOf(r.ret)

\* C12: flexitable called on a finite value returns or raises, every
\* recursive call being made on a strictly smaller sub-value and at a depth
\* bounded by the nesting depth of the value.
C12_Terminates == <>Finished /\ [](StackBounded /\ StepsAgree)

\* C12 witness: a value nested three deep was rendered by calls four deep
C12_Witness ==
    /\ Finished
    /\ result.exc = ""
    /\ NestingDepth(input) = 3
    /\ \E i \in DOMAIN calls : calls[i].depth = 4

\* ------------------------------------------------------------------------
\* counts_table called on its own (table.py calls it through flexitable and
\* directly), on rows that may carry their own "total".
\* ------------------------------------------------------------------------
MaxCountRows == 2

CountValues == {VInt(0), VInt(5), VInt(10), VFloat(25), VInt(-5)}

CountRows ==
    {Row("count", c, "name", VStr("a")) : c \in CountValues}
    \cup {VDict(<< <<"name", VStr("a")>>, <<"count", c>>, <<"total", VInt(20)>> >>) :
             c \in CountValues}
    \cup {VDict(<< <<"name", VStr("a")>> >>)}

CountLists == {VList(s) : s \in {q \in SeqsUpTo(CountRows, MaxCountRows) : Len(q) >= 1}}

\* utils.py 319: counts_table(input)
CallCountsTable ==
    /\ LET r == counts_table(World, input)
       IN /\ input' = r.data
          /\ fields' = r.w.fields
          /\ rng' = r.w.rng
          /\ result' = [ret |-> r.ret, exc |-> r.exc]
    /\ prev' = [input |-> input, fields |-> fields, result |-> result]
    /\ op' = [fn |-> "counts_table", arg |-> ""]
    /\ UNCHANGED <<console, calls, stack>>

SpecCountsInit ==
    /\ input \in CountLists
    /\ fields = RegisteredFields
    /\ rng = seed(VStr("os1"))
    /\ console = [width |-> 80]
    /\ result = None
    /\ prev = None
    /\ op = None
    /\ calls = <<>>
    /\ stack = <<>>
    /\ IdleLayout
    /\ IdleDiff

SpecCountsNext == CallCountsTable /\ UNCHANGED layoutVars /\ UNCHANGED diffVars

SpecCounts == SpecCountsInit /\ [][SpecCountsNext]_vars

Counted == op # None /\ op.fn = "counts_table" /\ result.exc = ""

\* the count of a row as counts_table reads it: float(row.get("count", 0))
CountOf(row) == PyFloat(DictGet(row, "count", VInt(0)))

\* C5: in a counts table total_max is the maximum of the counts of the rows,
\* so it is at least every count; the bar of a row that has no "total" of its
\* own runs from 0 to the count on a scale of total_max, and its ratio is
\* count / total_max (taken over a total_max other than zero).
C5_TotalMaxAndRatio ==
    Counted =>
        LET rows == prev.input.v
            table == result.ret
        IN /\ \A i \in DOMAIN rows : table.total_max >= CountOf(rows[i])
           /\ \E i \in DOMAIN rows : table.total_max = CountOf(rows[i])
           /\ Len(table.rows) = Len(rows)
           /\ \A i \in DOMAIN rows :
                  ~DictHas(rows[i], "total") =>
                      LET bar == table.rows[i][Len(table.rows[i])]
                      IN /\ bar.t = "Bar"
                         /\ bar.size = table.total_max
                         /\ bar.begin = 0
                         /\ bar.end = CountOf(rows[i])
                         /\ table.total_max # 0 =>
                                bar.ratio = Ratio(CountOf(rows[i]), table.total_max)

\* C5 witness: the counts 10 and 5 gave total_max 10 and the ratios 1 and 1/2
C5_Witness ==
    /\ Counted
    /\ prev.input = VList(<<Row("count", VInt(10), "name", VStr("a")),
                            Row("count", VInt(5), "name", VStr("a"))>>)
    /\ result.ret.total_max = PyFloat(VInt(10))
    /\ result.ret.rows[1][3].ratio = <<1, 1>>
    /\ result.ret.rows[2][3].ratio = <<1, 2>>
    /\ result.ret.rows[2][3].end = PyFloat(VInt(5))

SpecColorInit ==
    /\ input = None
    /\ fields = <<>>
    /\ rng \in InitialRng
    /\ console = None
    /\ result = None
    /\ prev = None
    /\ op = None
    /\ calls = <<>>
    /\ stack = <<>>
    /\ IdleLayout
    /\ IdleDiff

SpecColorNext ==
    \/ \E label \in ColorLabels :
           CallColor(label) /\ UNCHANGED layoutVars /\ UNCHANGED diffVars
    \/ \E count \in BarCounts, total_max \in BarMaxima, item_max \in {None} \cup {VFloat(m) : m \in BarMaxima} :
           CallProgressBar(count, total_max, item_max)
               /\ UNCHANGED layoutVars /\ UNCHANGED diffVars

SpecColor == SpecColorInit /\ [][SpecColorNext]_vars

IsColorCall(c) == c.fn = "predictably_random_color"

\* C8: any two calls of predictably_random_color with the same label return
\* the identical colour string, whatever calls were made between them.
C8_Deterministic ==
    \A i, j \in DOMAIN calls :
        (IsColorCall(calls[i]) /\ IsColorCall(calls[j]) /\ calls[i].arg = calls[j].arg)
            => calls[i].ret = calls[j].ret

\* C8 witness: the same label was coloured twice with a progress_bar call,
\* which reseeds the generator, between the two calls.
C8_Witness ==
    /\ Len(calls) = 3
    /\ IsColorCall(calls[1]) /\ IsColorCall(calls[3])
    /\ calls[1].arg = calls[3].arg
    /\ calls[2].fn = "progress_bar"
    /\ calls[1].ret = calls[3].ret

\* C11: every colour predictably_random_color returns is "#" and three
\* two-digit hex channels, each channel within 60..200, for every label, the
\* empty string among them.
C11_ChannelRange ==
    \A i \in DOMAIN calls :
        IsColorCall(calls[i]) =>
            /\ \A k \in 1..3 : calls[i].channels[k] \in 60..200
            /\ \A k \in 1..3 : Len(Hex2(calls[i].channels[k])) = 2
            /\ calls[i].ret = "#" \o Hex2(calls[i].channels[1])
                                  \o Hex2(calls[i].channels[2])
                                  \o Hex2(calls[i].channels[3])

\* C11 witness: the empty label and another label were coloured, to
\* different colours
C11_Witness ==
    /\ Len(calls) >= 2
    /\ IsColorCall(calls[1]) /\ calls[1].arg = ""
    /\ IsColorCall(calls[2]) /\ calls[2].arg = "a"
    /\ calls[1].ret # calls[2].ret
    /\ \A k \in 1..3 : calls[1].channels[k] \in 60..200

SpecDiffInit == DiffInit /\ IdleRender /\ IdleLayout

SpecDiffNext == CallMakeDifftext /\ UNCHANGED renderVars /\ UNCHANGED layoutVars

SpecDiff == SpecDiffInit /\ [][SpecDiffNext]_vars

\* The plain text of the fragments that carry one of the given styles
RECURSIVE PlainText(_, _)
PlainText(frags, styles) ==
    IF frags = <<>> THEN <<>>
    ELSE (IF Head(frags).style \in styles THEN Head(frags).text ELSE <<>>)
         \o PlainText(Tail(frags), styles)

\* C6: the Equal fragments and the inserted spans, in order, spell the
\* escaped `after`; the Equal fragments and the deleted spans, in order,
\* spell the escaped `before`.
C6_RoundTrip ==
    diff # None =>
        /\ PlainText(diff.fragments, {"dim", "b green"}) = EscapeBrackets(after)
        /\ PlainText(diff.fragments, {"dim", "b s red"}) = EscapeBrackets(before)

\* C6 witness: a diff that holds an Equal fragment, a deleted span and an
\* inserted span, of two different strings with an escaped bracket
C6_Witness ==
    /\ diff # None
    /\ before # after
    /\ \E i \in DOMAIN before : before[i] = "["
    /\ {diff.fragments[i].style : i \in DOMAIN diff.fragments} = {"dim", "b green", "b s red"}

SpecLayoutInit == LayoutInit /\ IdleRender /\ IdleDiff

SpecLayoutNext ==
    \/ LayoutStep /\ UNCHANGED renderVars /\ UNCHANGED diffVars
    \/ LayoutReturn /\ UNCHANGED renderVars /\ UNCHANGED diffVars

SpecLayout == SpecLayoutInit /\ [][SpecLayoutNext]_vars

\* The blocks that have a row count
Measured == {i \in 1..Len(rends) : rends[i].rows # NoRows}

EqualWeight(w) == \A i \in Measured : rends[i].rows = w

\* C7 (as claimed): for N blocks of equal row-count weight w, after every
\* block has been assigned, |left total - right total| <= w.
C7_Original ==
    \A w \in 0..MaxRows :
        (lay # None /\ EqualWeight(w))
            => Abs(col_rows.left - col_rows.right) <= w

\* C7 (amended): each assignment adds the row count plus the fixed overhead
\* of 6, so for N blocks of equal row-count weight w the totals differ by at
\* most w + 6 after every block has been assigned.
C7_Balanced ==
    \A w \in 0..MaxRows :
        (lay # None /\ EqualWeight(w))
            => Abs(col_rows.left - col_rows.right) <= w + RowOverhead

\* C7 witness: three blocks of weight 2 have been assigned, two left, one right
C7_Witness ==
    /\ lay # None
    /\ Cardinality(Measured) = 3
    /\ EqualWeight(2)
    /\ Len(divided.left) = 2
    /\ Len(divided.right) = 1
    /\ col_rows.left - col_rows.right = 2 + RowOverhead

\* ------------------------------------------------------------------------
\* counts_table called on rows whose count column has another name, or that
\* have several numeric keys
\* ------------------------------------------------------------------------
NameA == <<"name", VStr("a")>>

ColumnRows ==
    {VDict(<<NameA, <<"x", v>> >>) : v \in {VInt(5), VInt(10), VFloat(25), VFloat(35), VInt(-5)}}
    \cup {VDict(<<NameA, <<"duration", v>> >>) : v \in {VInt(5), VInt(10)}}
    \cup {VDict(<< <<"x", VInt(5)>>, <<"y", VInt(10)>>, NameA >>),
          VDict(<< <<"x", VInt(10)>>, <<"count", VInt(5)>>, NameA >>),
          VDict(<<NameA, <<"avg_duration", VInt(5)>> >>),
          VDict(<<NameA, <<"total", VInt(5)>>, <<"x", VInt(10)>> >>),
          VDict(<<NameA, <<"count", VInt(10)>>, <<"total", VInt(0)>> >>)}

ColumnLists == {VList(s) : s \in {q \in SeqsUpTo(ColumnRows, MaxCountRows) : Len(q) >= 1}}

SpecColumnsInit ==
    /\ input \in ColumnLists
    /\ fields = RegisteredFields
    /\ rng = seed(VStr("os1"))
    /\ console = [width |-> 80]
    /\ result = None
    /\ prev = None
    /\ op = None
    /\ calls = <<>>
    /\ stack = <<>>
    /\ IdleLayout
    /\ IdleDiff

SpecColumnsNext == CallCountsTable /\ UNCHANGED layoutVars /\ UNCHANGED diffVars

SpecColumns == SpecColumnsInit /\ [][SpecColumnsNext]_vars

\* the keys of a row, other than "total", whose value is a number, in key order
NumericKeys(row) ==
    SelectSeq(DictKeys(row), LAMBDA k : k # "total" /\ IsNumber(DictGet(row, k, None)))

\* C14 (as claimed): the count field is "count" when the first row has that
\* key, and otherwise the earliest key of the first row, "total" excluded,
\* whose value in the first row is a number.
C14_FirstNumericKey ==
    Counted =>
        LET first == prev.input.v[1]
            numeric == NumericKeys(first)
        IN /\ DictHas(first, "count") => result.ret.count_col_name = "count"
           /\ (~DictHas(first, "count") /\ numeric # <<>>)
                  => result.ret.count_col_name = numeric[1]

\* the count of a row under the count field counts_table chose
ColumnCount(row) == PyFloat(DictGet(row, result.ret.count_col_name, VInt(0)))

\* the cell of row i that shows its count: the one before the bar
CountCell(i) == result.ret.rows[i][Len(result.ret.rows[i]) - 1]

\* C15 (as claimed): counts are displayed as integers if and only if the
\* count of every row has a zero fractional part, and as floats otherwise.
C15_IntegerDisplay ==
    Counted =>
        LET rows == prev.input.v
            whole == \A i \in DOMAIN rows : ColumnCount(rows[i]) % 10 = 0
        IN /\ result.ret.num_type = (IF whole THEN "int" ELSE "float")
           /\ \A i \in DOMAIN rows :
                  (/\ ~DictHas(rows[i], "total")
                   /\ result.ret.count_col_name \notin KeysContaining("duration"))
                      => CountCell(i) =
                             VStr(IF whole THEN IntStr(PyInt(ColumnCount(rows[i])))
                                  ELSE FloatStr(ColumnCount(rows[i])))

\* C16 (as claimed): whenever the name of the count field contains
\* "duration", the condition under which the count of a row is shown as a
\* duration, the caption is the sum of the counts of all rows, every row
\* counted once.
C16_DurationCaption ==
    (Counted /\ result.ret.count_col_name \in KeysContaining("duration")) =>
        LET rows == prev.input.v
        IN result.ret.caption =
               "Total " \o duration2human(SumSeq([i \in DOMAIN rows |-> ColumnCount(rows[i])]))

\* C17 (as claimed): the ratio of the bar of every row is
\* count / (row_total or total_max) and lies between 0 and 1, and every
\* channel of the colour of the bar is a channel value no greater than the
\* draw it was scaled from.
C17_RatioUnit ==
    Counted =>
        LET rows == prev.input.v
        IN \A i \in DOMAIN rows :
               LET bar == result.ret.rows[i][Len(result.ret.rows[i])]
                   row_total == PyFloat(DictGet(rows[i], "total", VInt(0)))
                   use_max == IF row_total # 0 THEN row_total ELSE result.ret.total_max
               IN /\ bar.ratio = (IF use_max # 0 THEN Ratio(ColumnCount(rows[i]), use_max)
                                  ELSE <<0, 1>>)
                  /\ 0 <= bar.ratio[1]
                  /\ bar.ratio[1] <= bar.ratio[2]
                  /\ \A k \in 1..3 : /\ bar.channels[k] \in 0..255
                                     /\ bar.channels[k] <= bar.draws[k]

\* ------------------------------------------------------------------------
\* Lists of maps that do not go to counts_table
\* ------------------------------------------------------------------------
\* a list of two or more maps that _list does not hand to counts_table
IsPlainMapList(x) ==
    /\ x.t = "list"
    /\ Len(x.v) >= 2
    /\ \A i \in DOMAIN x.v : x.v[i].t = "dict"
    /\ ~RoutesToCounts(x.v)

\* C18 (as claimed): for a list of two or more maps that is not routed to
\* counts_table, flexitable returns a table whose columns are the union of
\* the keys of the maps in first-seen order and whose rows are the maps in
\* list order, one row per map; the cell of a key a map lacks is empty, and
\* no error is raised.
C18_KeyUnionTable ==
    (Rendered /\ IsPlainMapList(prev.input)) =>
        /\ result.exc = ""
        /\ result.ret.t = "Panel"
        /\ LET items == prev.input.v
               keys == KeyUnion(items, <<>>)
               table == result.ret.content
           IN /\ table.t = "Table"
              /\ Len(table.columns) = Len(keys)
              /\ Len(table.rows) = Len(items)
              /\ \A r \in DOMAIN items : \A c \in DOMAIN keys :
                     ~DictHas(items[r], keys[c]) => table.rows[r][c] = VStr("")

\* ========================================================================
\* The row-fill packing of _dict (generic.py 125-153), on its own
\* ========================================================================
MaxPackLen == 3
MaxPackWidth == 9

\* generic.py 107-115, 125: the key/value table is always the first block;
\* without rows, or with one row
PackTables ==
    {new_table(<<"", "">>),
     [new_table(<<"", "">>) EXCEPT !.rows = << <<VStr("a"), VStr("ab")>> >>]}

\* generic.py 69-70: the blocks hoisted after the table are renderables
PackRends ==
    {[t |-> "Bar", id |-> 1], [t |-> "Bar", id |-> 2],
     [t |-> "Panel", content |-> VStr(""), title |-> "", border_style |-> ""],
     [t |-> "Panel", content |-> VStr("a"), title |-> "", border_style |-> ""]}

\* generic.py 125: rends = [table, *rends];  console.width
SpecPackInit ==
    /\ rends \in {<<table>> \o s : table \in PackTables, s \in SeqsUpTo(PackRends, MaxPackLen)}
    /\ console \in [width : 1..MaxPackWidth]
    /\ pos = 0
    /\ col_rows = [left |-> 0, right |-> 0]
    /\ divided = [left |-> <<>>, right |-> <<>>]
    /\ standalone = <<>>
    /\ lay = None
    /\ input = None
    /\ fields = <<>>
    /\ rng = None
    /\ result = None
    /\ prev = None
    /\ op = None
    /\ calls = <<>>
    /\ stack = <<>>
    /\ IdleDiff

\* generic.py 128-153: lines, then rend_lines
PackRendLines ==
    /\ op = None
    /\ LET widths == [i \in DOMAIN rends |-> Measure(rends[i])]
           lines == PackLines(rends, widths, 1, <<>>, 0, console.width)
       IN result' = [lines |-> lines, rend_lines |-> RendLines(lines)]
    /\ op' = [fn |-> "_dict", arg |-> ""]
    /\ UNCHANGED <<input, fields, rng, console, prev, calls, stack>>
    /\ UNCHANGED layoutVars
    /\ UNCHANGED diffVars

SpecPackNext == PackRendLines

SpecPack == SpecPackInit /\ [][SpecPackNext]_vars

Packed == op # None /\ op.fn = "_dict"

RECURSIVE Concat(_)
Concat(ls) == IF ls = <<>> THEN <<>> ELSE Head(ls) \o Concat(Tail(ls))

LineWidth(line) == SumSeq([j \in DOMAIN line |-> Measure(line[j])])

\* C13: the rows the packing of _dict produces, concatenated in order, are
\* exactly the blocks b1..bn; every row of more than one block has a total
\* width strictly below the console width W; a block after the first opens a
\* new row only when adding its width to the running sum of the row before it
\* would reach or exceed W; a row of one block is passed through unwrapped,
\* and a longer row becomes one synthetic row of its blocks, each centered.
C13_RowFill ==
    Packed =>
        LET lines == result.lines
            out == result.rend_lines
            W == console.width
        IN /\ Concat(lines) = rends
           /\ \A k \in DOMAIN lines : lines[k] # <<>>
           /\ \A k \in DOMAIN lines : Len(lines[k]) > 1 => LineWidth(lines[k]) < W
           /\ \A k \in DOMAIN lines :
                  k > 1 => LineWidth(lines[k - 1]) + Measure(lines[k][1]) >= W
           /\ Len(out) = Len(lines)
           /\ \A k \in DOMAIN lines :
                  IF Len(lines[k]) = 1 THEN out[k] = lines[k][1]
                  ELSE /\ out[k].t = "Table"
                       /\ Len(out[k].rows) = 1
                       /\ Len(out[k].rows[1]) = Len(lines[k])
                       /\ \A j \in DOMAIN lines[k] :
                              /\ out[k].rows[1][j].t = "Align"
                              /\ out[k].rows[1][j].vertical = "middle"
                              /\ out[k].rows[1][j].renderable = lines[k][j]

\* C13 witness: four blocks were packed into a row of two blocks, whose
\* widths add up to one less than the console width, and two rows of one
\* block each, the first of which would have reached the console width exactly
C13_Witness ==
    /\ Packed
    /\ Len(rends) = 4
    /\ Len(result.lines) = 3
    /\ Len(result.lines[1]) = 2
    /\ LineWidth(result.lines[1]) = console.width - 1
    /\ LineWidth(result.lines[1]) + Measure(result.lines[2][1]) = console.width
    /\ result.rend_lines[1].t = "Table"
    /\ result.rend_lines[2] = rends[3]
    /\ result.rend_lines[3] = rends[4]


=============================================================================
